---- MODULE Spec2Model ----
(***************************************************************************)
(* Model of src/src/turing.py: the TuringMachine class (construction and   *)
(* validation, one transition application, the accepts_string loop).       *)
(*                                                                         *)
(* Python values are represented as follows.  A str of length one is the   *)
(* TLA+ string holding that character; the str "BL" is the one symbol of   *)
(* the model that has two characters.  A Python str that is iterated       *)
(* (the input string) is a sequence of one-character strings.  A Python    *)
(* list is a sequence; Python index i is position i + 1 of the sequence.   *)
(***************************************************************************)
EXTENDS Integers, Sequences, FiniteSets, TLC

VARIABLES states, in_alph, tp_alph, start, blank, end, reject, transitions,
          proc, pc, string, current_configuration, result, trace, last,
          verbose, gen, out, want, frames, threads

machine == <<states, in_alph, tp_alph, start, blank, end, reject, transitions>>
enumVars == <<gen, out, want>>
parVars == <<frames, threads>>
vars == <<states, in_alph, tp_alph, start, blank, end, reject, transitions,
          proc, pc, string, current_configuration, result, trace, last,
          verbose, gen, out, want, frames, threads>>

(***************************************************************************)
(* Bounds of the model.                                                    *)
(***************************************************************************)
MaxEntries == 2        \* entries of a transition table
MaxInput == 2          \* characters of an input string
MaxTrace == 4          \* configurations kept in the recorded trace
MaxSize == 2           \* argument n of _get_language_of_size
MaxWant == 2           \* number of strings asked for with -l
MaxParInput == 1       \* characters of the input of an interleaved run
SoloFuel == 12         \* steps after which a run alone counts as not halting

(***************************************************************************)
(* The universe the machine descriptions are drawn from.                   *)
(***************************************************************************)
Q == {"q0", "q1"}                  \* the machine's states
TableSymbols == {"a", "_"}         \* symbols the table reads and writes
Directions == {"R", "L"}
InputChars == {"a", "b"}           \* characters of the strings that are run
None == "None"                     \* result before a verdict; no exception
Unset == [unset |-> TRUE]          \* a name not yet bound to an object

Keys == Q \X TableSymbols
Entries == Q \X TableSymbols \X Directions

\* Every transition table with at most MaxEntries entries.
Tables ==
  UNION { [D -> Entries] : D \in { S \in SUBSET Keys : Cardinality(S) <= MaxEntries } }

\* Every string of at most MaxInput characters.
Strings == UNION { [1..n -> InputChars] : n \in 0..MaxInput }

(***************************************************************************)
(* Python primitives.                                                      *)
(***************************************************************************)
\* list(s) for a str s: the list of its characters.
Chars(s) == IF s = "BL" THEN <<"B", "L">> ELSE <<s>>

\* lst[i] is defined for -len(lst) <= i < len(lst); otherwise IndexError.
InRange(lst, i) == -Len(lst) <= i /\ i < Len(lst)

\* The sequence position that Python index i denotes.
Slot(lst, i) == IF i >= 0 THEN i + 1 ELSE Len(lst) + i + 1

Get(lst, i) == lst[Slot(lst, i)]

Set(lst, i, v) == [lst EXCEPT ![Slot(lst, i)] = v]

(***************************************************************************)
(* TuringMachine.                                                          *)
(***************************************************************************)
\* _tm_is_valid: TRUE when no branch calls sys.exit.
TmIsValid_NoBlankCheck ==
  /\ in_alph \subseteq tp_alph
  /\ start \in states
  /\ end \subseteq states

TmIsValid ==
  /\ in_alph \subseteq tp_alph
  /\ blank \in tp_alph
  /\ start \in states
  /\ end \subseteq states

\* _string_is_valid: TRUE when the loop ends without sys.exit.
StringIsValid(s) == \A i \in 1..Len(s) : s[i] \in in_alph

\* DeltaFunction.apply: the entry, or KeyError when the lookup fails.
HasEntry(state, symbol) == <<state, symbol>> \in DOMAIN transitions

apply(state, symbol) ==
  IF HasEntry(state, symbol) THEN transitions[<<state, symbol>>] ELSE "KeyError"

\* Movement[direction].value
MovementValue_Swapped(direction) == IF direction = "R" THEN -1 ELSE 1

MovementValue(direction) == IF direction = "R" THEN 1 ELSE -1

\* The exception _get_next_configuration raises on c, or None.
Raises(c) ==
  IF ~InRange(c.string_list, c.position) THEN "IndexError"
  ELSE IF apply(c.state, Get(c.string_list, c.position)) = "KeyError" THEN "KeyError"
  ELSE None

\* _get_next_configuration, when it raises nothing.
GetNextConfiguration(c) ==
  LET e == apply(c.state, Get(c.string_list, c.position))
  IN [state |-> e[1],
      string_list |-> Set(c.string_list, c.position, e[2]),
      position |-> c.position + MovementValue(e[3])]

\* The configuration _get_next_configuration leaves behind when it raises:
\* the lookup of lines 119-121 precedes the assignments of lines 122-124.
AfterRaise_Moved(c) == [c EXCEPT !.position = c.position + 1]

AfterRaise(c) == c

\* accepts_string, lines 132-133: the configuration a run starts from.
InitialConfiguration_Stale(s) ==
  [state |-> start,
   string_list |-> IF current_configuration # Unset
                      /\ Len(current_configuration.string_list)
                           = Len(Chars(blank) \o s \o Chars(blank))
                   THEN current_configuration.string_list
                   ELSE Chars(blank) \o s \o Chars(blank),
   position |-> 1]

InitialConfiguration(s) ==
  [state |-> start,
   string_list |-> Chars(blank) \o s \o Chars(blank),
   position |-> 1]

\* The loop condition of accepts_string is "state not in end".
LoopExit_RejectFirst(c) == c.state \in end /\ c.state # reject

LoopExit(c) == c.state \in end

\* The test of line 142.
IsReject_UnlessEntry(c) ==
  /\ c.state = reject
  /\ Raises(c) # None

IsReject(c) == c.state = reject

\* The except clause of line 148.
Catches_Nothing(exc) == FALSE

Catches(exc) == exc = "KeyError"

\* What a verbose run prints: the configurations met in the loop body.  When
\* string_list[position] is an IndexError, print_configuration (line 154)
\* raises it before printing, so the escaping run records nothing.
Record(t, c) == IF Len(t) < MaxTrace THEN Append(t, c) ELSE t

\* No generator has been created and no thread started.
NoEnumeration == gen = Unset /\ out = <<>> /\ want = Unset

NoThreads == frames = <<>> /\ threads = <<>>

(***************************************************************************)
(* Initial state: a machine description, not yet constructed.  The table   *)
(* is not read by _tm_is_valid, so the descriptions that fail validation   *)
(* are enumerated with the empty table only.                               *)
(***************************************************************************)
Init ==
  /\ states = Q
  /\ in_alph \in {{"a"}, {"a", "b"}}
  /\ tp_alph \in {{"a", "_", "BL"}, {"a"}}
  /\ start \in {"q0", "qx"}
  /\ blank \in {"_", "BL"}
  /\ end \in (SUBSET Q) \cup {{"q1", "qx"}}
  /\ reject \in Q
  /\ transitions \in IF TmIsValid THEN Tables ELSE {<<>>}
  /\ proc = "new"
  /\ pc = "idle"
  /\ string = <<>>
  /\ current_configuration = Unset
  /\ result = None
  /\ trace = <<>>
  /\ last = Unset
  /\ verbose = FALSE
  /\ NoEnumeration
  /\ NoThreads

(***************************************************************************)
(* __init__: stores the fields and runs _tm_is_valid.                      *)
(***************************************************************************)
ConstructOk ==
  /\ proc = "new"
  /\ TmIsValid
  /\ proc' = "alive"
  /\ UNCHANGED <<machine, pc, string, current_configuration, result, trace, last>>
  /\ UNCHANGED <<verbose, enumVars, parVars>>

ConstructExit ==
  /\ proc = "new"
  /\ ~TmIsValid
  /\ proc' = "exit_model"
  /\ UNCHANGED <<machine, pc, string, current_configuration, result, trace, last>>
  /\ UNCHANGED <<verbose, enumVars, parVars>>

(***************************************************************************)
(* accepts_string(s), up to the first evaluation of the loop condition.    *)
(* sys.exit in _string_is_valid ends the process before line 132: no       *)
(* configuration is built, and the objects of earlier runs are gone.       *)
(***************************************************************************)
Finished ==
  [string |-> string, result |-> result, trace |-> trace,
   final |-> current_configuration, verbose |-> verbose]

CallInvalid(s) ==
  /\ proc = "alive"
  /\ pc \in {"idle", "done"}
  /\ ~StringIsValid(s)
  /\ proc' = "exit_input"
  /\ string' = s
  /\ result' = "InputInvalid"
  /\ pc' = "done"
  /\ trace' = <<>>
  /\ current_configuration' = Unset
  /\ last' = Unset
  /\ UNCHANGED <<machine, verbose, enumVars, parVars>>

\* accepts_string(s, v) with a valid s, lines 131-138.
Call(s, v) ==
  /\ proc = "alive"
  /\ pc \in {"idle", "done"}
  /\ StringIsValid(s)
  /\ string' = s
  /\ verbose' = v
  /\ current_configuration' = InitialConfiguration(s)
  /\ result' = None
  /\ pc' = "loop"
  /\ trace' = <<>>
  /\ last' = IF pc = "done" THEN Finished ELSE last
  /\ UNCHANGED <<machine, proc, enumVars, parVars>>

CallValid(s) == Call(s, FALSE)

CallVerbose(s) == Call(s, TRUE)

(***************************************************************************)
(* One evaluation of the loop condition and, when it holds, of the body.   *)
(***************************************************************************)
\* print_configuration (lines 153-156) indexes string_list[position] too.
PrintRaises(c) == verbose /\ ~InRange(c.string_list, c.position)

Accept ==
  /\ pc = "loop"
  /\ LoopExit(current_configuration)
  /\ result' = "Accepted"
  /\ pc' = "done"
  /\ UNCHANGED <<machine, proc, string, current_configuration, trace, last>>
  /\ UNCHANGED <<verbose, enumVars, parVars>>

PrintEscape ==
  /\ pc = "loop"
  /\ ~LoopExit(current_configuration)
  /\ PrintRaises(current_configuration)
  /\ proc' = "IndexError"
  /\ pc' = "done"
  /\ UNCHANGED <<machine, string, current_configuration, result, trace, last>>
  /\ UNCHANGED <<verbose, enumVars, parVars>>

ExplicitReject ==
  /\ pc = "loop"
  /\ ~LoopExit(current_configuration)
  /\ ~PrintRaises(current_configuration)
  /\ IsReject(current_configuration)
  /\ trace' = Record(trace, current_configuration)
  /\ result' = "Rejected"
  /\ pc' = "done"
  /\ UNCHANGED <<machine, proc, string, current_configuration, last>>
  /\ UNCHANGED <<verbose, enumVars, parVars>>

Step ==
  /\ pc = "loop"
  /\ ~LoopExit(current_configuration)
  /\ ~PrintRaises(current_configuration)
  /\ ~IsReject(current_configuration)
  /\ Raises(current_configuration) = None
  /\ trace' = Record(trace, current_configuration)
  /\ current_configuration' = GetNextConfiguration(current_configuration)
  /\ UNCHANGED <<machine, proc, pc, string, result, last>>
  /\ UNCHANGED <<verbose, enumVars, parVars>>

CaughtReject ==
  /\ pc = "loop"
  /\ ~LoopExit(current_configuration)
  /\ ~PrintRaises(current_configuration)
  /\ ~IsReject(current_configuration)
  /\ Raises(current_configuration) # None
  /\ Catches(Raises(current_configuration))
  /\ trace' = Record(trace, current_configuration)
  /\ current_configuration' = AfterRaise(current_configuration)
  /\ result' = "Rejected"
  /\ pc' = "done"
  /\ UNCHANGED <<machine, proc, string, last>>
  /\ UNCHANGED <<verbose, enumVars, parVars>>

Escape ==
  /\ pc = "loop"
  /\ ~LoopExit(current_configuration)
  /\ ~PrintRaises(current_configuration)
  /\ ~IsReject(current_configuration)
  /\ Raises(current_configuration) # None
  /\ ~Catches(Raises(current_configuration))
  /\ current_configuration' = AfterRaise(current_configuration)
  /\ proc' = Raises(current_configuration)
  /\ pc' = "done"
  /\ UNCHANGED <<machine, string, result, trace, last>>
  /\ UNCHANGED <<verbose, enumVars, parVars>>

Next ==
  \/ ConstructOk
  \/ ConstructExit
  \/ \E s \in Strings : CallInvalid(s)
  \/ \E s \in Strings : CallValid(s)
  \/ Accept
  \/ ExplicitReject
  \/ Step
  \/ CaughtReject
  \/ Escape

Spec == Init /\ [][Next]_vars

\* Runs with and without tracing.
NextVerbose ==
  \/ Next
  \/ \E s \in Strings : CallVerbose(s)
  \/ PrintEscape

SpecVerbose == Init /\ [][NextVerbose]_vars


(***************************************************************************)
(* The language generators (lines 165-193) and the -l loop of main         *)
(* (lines 245-251).  A generator is [name, n, at]: at "start" no statement *)
(* of its body has run; a pull (next) runs the body up to the next yield,  *)
(* to its end (StopIteration) or to an exception.                          *)
(***************************************************************************)
\* The names that self.<name> resolves: the instance attributes set in
\* __init__ and the attributes of the class.
Attributes ==
  {"states", "in_alph", "tp_alph", "start", "blank", "end", "reject", "delta_fun",
   "DeltaFunction", "Movement", "Configuration", "__init__", "__str__",
   "_tm_is_valid", "_string_is_valid", "_underline_string",
   "_get_next_configuration", "accepts_string", "print_configuration",
   "_get_language_of_size", "_language", "accepted_language"}

HasAttr(name) == name \in Attributes

Generator(name, n) == [name |-> name, n |-> n, at |-> "start"]

\* A constructed machine, with every input alphabet over InputChars.
InitEnum ==
  /\ states = Q
  /\ in_alph \in SUBSET InputChars
  /\ tp_alph = InputChars \cup {"_"}
  /\ start = "q0"
  /\ blank = "_"
  /\ end \in SUBSET Q
  /\ reject \in Q
  /\ transitions \in Tables
  /\ proc = "alive"
  /\ pc = "idle"
  /\ string = <<>>
  /\ current_configuration = Unset
  /\ result = None
  /\ trace = <<>>
  /\ last = Unset
  /\ verbose = FALSE
  /\ NoEnumeration
  /\ NoThreads

runVars == <<proc, pc, string, current_configuration, result, trace, last, verbose>>

CanCreate == proc = "alive" /\ (IF gen = Unset THEN TRUE ELSE gen.at = "end")

\* self._get_language_of_size(n): creating a generator runs nothing.
NewOfSize(n) ==
  /\ CanCreate
  /\ gen' = Generator("_get_language_of_size", n)
  /\ out' = <<>>
  /\ want' = Unset
  /\ UNCHANGED <<machine, runVars, parVars>>

\* self._language()
NewLanguage ==
  /\ CanCreate
  /\ gen' = Generator("_language", 0)
  /\ out' = <<>>
  /\ want' = Unset
  /\ UNCHANGED <<machine, runVars, parVars>>

\* self.accepted_language()
NewAccepted ==
  /\ CanCreate
  /\ gen' = Generator("accepted_language", 0)
  /\ out' = <<>>
  /\ want' = Unset
  /\ UNCHANGED <<machine, runVars, parVars>>

\* main, lines 245-247, with args.l = str(k): "if args.l" holds for every
\* non-empty string, "0" included; i = 1 and the for loop creates the generator.
MainList(k) ==
  /\ CanCreate
  /\ gen' = Generator("accepted_language", 0)
  /\ out' = <<>>
  /\ want' = [n |-> k]
  /\ UNCHANGED <<machine, runVars, parVars>>

Pulling(name) == proc = "alive" /\ gen # Unset /\ gen.name = name

\* _get_language_of_size, lines 169-170: yield "".
OfSizeYieldEmpty ==
  /\ Pulling("_get_language_of_size")
  /\ gen.at = "start"
  /\ gen.n <= 0
  /\ out' = Append(out, <<>>)
  /\ gen' = [gen EXCEPT !.at = "yielded"]
  /\ UNCHANGED <<machine, runVars, want, parVars>>

\* _get_language_of_size: the body ends, after the yield of line 170 or
\* because the loop of line 172 has nothing to iterate over.
OfSizeStop ==
  /\ Pulling("_get_language_of_size")
  /\ \/ gen.at = "yielded"
     \/ gen.at = "start" /\ gen.n > 0 /\ in_alph = {}
  /\ gen' = [gen EXCEPT !.at = "end"]
  /\ UNCHANGED <<machine, runVars, out, want, parVars>>

\* _get_language_of_size, line 173: self.get_language_of_size.
OfSizeAttributeError ==
  /\ Pulling("_get_language_of_size")
  /\ gen.at = "start"
  /\ gen.n > 0
  /\ in_alph # {}
  /\ ~HasAttr("get_language_of_size")
  /\ proc' = "AttributeError"
  /\ gen' = [gen EXCEPT !.at = "raised"]
  /\ UNCHANGED <<machine, pc, string, current_configuration, result, trace, last>>
  /\ UNCHANGED <<verbose, out, want, parVars>>

\* _language, lines 180-182: n = 0, then self.get_language_of_size.
LanguageAttributeError ==
  /\ Pulling("_language")
  /\ gen.at = "start"
  /\ ~HasAttr("get_language_of_size")
  /\ proc' = "AttributeError"
  /\ gen' = [gen EXCEPT !.at = "raised"]
  /\ UNCHANGED <<machine, pc, string, current_configuration, result, trace, last>>
  /\ UNCHANGED <<verbose, out, want, parVars>>

\* accepted_language, line 190: self.language.
AcceptedAttributeError ==
  /\ Pulling("accepted_language")
  /\ gen.at = "start"
  /\ ~HasAttr("language")
  /\ proc' = "AttributeError"
  /\ gen' = [gen EXCEPT !.at = "raised"]
  /\ UNCHANGED <<machine, pc, string, current_configuration, result, trace, last>>
  /\ UNCHANGED <<verbose, out, want, parVars>>

NextEnum ==
  \/ \E n \in 0..MaxSize : NewOfSize(n)
  \/ NewLanguage
  \/ NewAccepted
  \/ \E k \in 0..MaxWant : MainList(k)
  \/ OfSizeYieldEmpty
  \/ OfSizeStop
  \/ OfSizeAttributeError
  \/ LanguageAttributeError
  \/ AcceptedAttributeError

SpecEnum == InitEnum /\ [][NextEnum]_vars


(***************************************************************************)
(* Two calls of accepts_string on one machine whose steps interleave.      *)
(* Each call has its own frame of local variables (string,                 *)
(* current_configuration); self is shared.  A call that raises ends with   *)
(* the exception as its outcome.                                           *)
(***************************************************************************)
Threads == {1, 2}

\* Every string of at most MaxParInput characters.
ParStrings == UNION { [1..n -> InputChars] : n \in 0..MaxParInput }

\* The frame that holds the locals of call t: one per call.
Frame_Shared(t) == 1

Frame(t) == t

\* accepts_string as a function of the configuration it is in: its outcome
\* when nothing else runs, or "running" after more than fuel steps.
RECURSIVE Outcome(_, _)
Outcome(c, fuel) ==
  IF LoopExit(c) THEN "Accepted"
  ELSE IF IsReject(c) THEN "Rejected"
  ELSE IF Raises(c) # None
       THEN IF Catches(Raises(c)) THEN "Rejected" ELSE Raises(c)
  ELSE IF fuel = 0 THEN "running"
  ELSE Outcome(GetNextConfiguration(c), fuel - 1)

Alone(s) == Outcome(InitialConfiguration(s), SoloFuel)

\* A constructed machine and two calls not yet made.
InitPar ==
  /\ states = Q
  /\ in_alph = {"a"}
  /\ tp_alph = {"a", "_", "BL"}
  /\ start = "q0"
  /\ blank = "_"
  /\ end \in SUBSET Q
  /\ reject \in Q
  /\ transitions \in Tables
  /\ proc = "alive"
  /\ pc = "idle"
  /\ string = <<>>
  /\ current_configuration = Unset
  /\ result = None
  /\ trace = <<>>
  /\ last = Unset
  /\ verbose = FALSE
  /\ NoEnumeration
  /\ frames = [t \in Threads |-> Unset]
  /\ threads = [t \in Threads |->
                  [pc |-> "idle", string |-> <<>>, result |-> None, mixed |-> FALSE]]

local(t) == frames[Frame(t)]

\* Some other call is between its first and its last loop evaluation.
Overlaps(t) == \E u \in Threads \ {t} : threads[u].pc = "loop"

Finish(t, r) ==
  threads' = [threads EXCEPT ![t].pc = "done", ![t].result = r,
                             ![t].mixed = @ \/ Overlaps(t)]

\* The calls are numbered in the order in which they are made.
ParCall(t, s) ==
  /\ threads[t].pc = "idle"
  /\ \A u \in Threads : u < t => threads[u].pc # "idle"
  /\ StringIsValid(s)
  /\ frames' = [frames EXCEPT ![Frame(t)] = InitialConfiguration(s)]
  /\ threads' = [threads EXCEPT ![t].pc = "loop", ![t].string = s]
  /\ UNCHANGED <<machine, runVars, enumVars>>

ParAccept(t) ==
  /\ threads[t].pc = "loop"
  /\ LoopExit(local(t))
  /\ Finish(t, "Accepted")
  /\ UNCHANGED <<machine, runVars, enumVars, frames>>

ParExplicitReject(t) ==
  /\ threads[t].pc = "loop"
  /\ ~LoopExit(local(t))
  /\ IsReject(local(t))
  /\ Finish(t, "Rejected")
  /\ UNCHANGED <<machine, runVars, enumVars, frames>>

ParStep(t) ==
  /\ threads[t].pc = "loop"
  /\ ~LoopExit(local(t))
  /\ ~IsReject(local(t))
  /\ Raises(local(t)) = None
  /\ frames' = [frames EXCEPT ![Frame(t)] = GetNextConfiguration(local(t))]
  /\ threads' = [threads EXCEPT ![t].mixed = @ \/ Overlaps(t)]
  /\ UNCHANGED <<machine, runVars, enumVars>>

ParCaughtReject(t) ==
  /\ threads[t].pc = "loop"
  /\ ~LoopExit(local(t))
  /\ ~IsReject(local(t))
  /\ Raises(local(t)) # None
  /\ Catches(Raises(local(t)))
  /\ frames' = [frames EXCEPT ![Frame(t)] = AfterRaise(local(t))]
  /\ Finish(t, "Rejected")
  /\ UNCHANGED <<machine, runVars, enumVars>>

ParEscape(t) ==
  /\ threads[t].pc = "loop"
  /\ ~LoopExit(local(t))
  /\ ~IsReject(local(t))
  /\ Raises(local(t)) # None
  /\ ~Catches(Raises(local(t)))
  /\ frames' = [frames EXCEPT ![Frame(t)] = AfterRaise(local(t))]
  /\ Finish(t, Raises(local(t)))
  /\ UNCHANGED <<machine, runVars, enumVars>>

NextPar ==
  \/ \E t \in Threads, s \in ParStrings : ParCall(t, s)
  \/ \E t \in Threads : ParAccept(t)
  \/ \E t \in Threads : ParExplicitReject(t)
  \/ \E t \in Threads : ParStep(t)
  \/ \E t \in Threads : ParCaughtReject(t)
  \/ \E t \in Threads : ParEscape(t)

SpecPar == InitPar /\ [][NextPar]_vars

TypeOK ==
  /\ proc \in {"new", "alive", "exit_model", "exit_input", "IndexError", "KeyError",
              "AttributeError"}
  /\ pc \in {"idle", "loop", "done"}
  /\ result \in {None, "Accepted", "Rejected", "InputInvalid"}
  /\ Len(trace) <= MaxTrace

(***************************************************************************)
(* Shorthands used by the properties.                                      *)
(***************************************************************************)
cc == current_configuration

Ended == pc = "done" /\ result # "InputInvalid"

\* The cell under the head exists and the table has no entry for it.
NoEntryUnderHead ==
  /\ InRange(cc.string_list, cc.position)
  /\ <<cc.state, Get(cc.string_list, cc.position)>> \notin DOMAIN transitions

C2_WalkOffRejects ==
  /\ proc # "IndexError"
  /\ \A i \in 1..Len(trace) :
       (trace[i].position < 0 \/ trace[i].position >= Len(trace[i].string_list)) =>
          /\ i = Len(trace)
          /\ pc = "done"
          /\ result = "Rejected"

(***************************************************************************)
(* C3.  A run ends only with Accepted or Rejected and only in a halting    *)
(* configuration (state in end, state = reject, or no entry for the pair   *)
(* under the head): when no halting configuration is reached, the run      *)
(* does not end.                                                           *)
(***************************************************************************)
Halting == cc.state \in end \/ cc.state = reject \/ NoEntryUnderHead

C3_EndsOnlyWhenHalted ==
  Ended => (result \in {"Accepted", "Rejected"} /\ Halting)

(***************************************************************************)
(* C4.  When the loop is first reached, the configuration is               *)
(* (start, [blank] + input characters + [blank], 1); for the empty input   *)
(* the tape is [blank, blank].                                             *)
(***************************************************************************)
C4_InitialConfiguration ==
  (pc = "loop" /\ trace = <<>>) =>
     /\ cc = [state |-> start,
              string_list |-> <<blank>> \o string \o <<blank>>,
              position |-> 1]
     /\ string = <<>> => cc.string_list = <<blank, blank>>

(***************************************************************************)
(* C5.  One application of step with entry (q', w, m) for the pair under   *)
(* the head sets the state to q', writes w into the cell that was under    *)
(* the head, moves the head by +1 for R and -1 for L, and changes no       *)
(* other cell and not the length of the tape.                              *)
(***************************************************************************)
C5_StepEffect ==
  [][(pc = "loop" /\ pc' = "loop") =>
       LET old == current_configuration
           new == current_configuration'
           k == Slot(old.string_list, old.position)
           e == transitions[<<old.state, old.string_list[k]>>]
       IN /\ <<old.state, old.string_list[k]>> \in DOMAIN transitions
          /\ new.state = e[1]
          /\ new.string_list[k] = e[2]
          /\ e[3] = "R" => new.position = old.position + 1
          /\ e[3] = "L" => new.position = old.position - 1
          /\ Len(new.string_list) = Len(old.string_list)
          /\ \A i \in 1..Len(old.string_list) :
               i # k => new.string_list[i] = old.string_list[i]]_vars

C5_Witness ==
  /\ pc = "loop"
  /\ Len(trace) >= 1
  /\ cc.string_list # trace[1].string_list
  /\ cc.state # trace[1].state

(***************************************************************************)
(* C6.  Whenever the loop condition is evaluated in a state of end the     *)
(* run returns Accepted without applying a transition, also when that      *)
(* state equals reject and also when it is the start state (zero steps).   *)
(***************************************************************************)
C6_AcceptFirst ==
  [][(pc = "loop" /\ current_configuration.state \in end) =>
       /\ result' = "Accepted"
       /\ pc' = "done"
       /\ current_configuration' = current_configuration]_vars

C6_Witness ==
  /\ Ended
  /\ result = "Accepted"
  /\ cc.state = reject
  /\ cc.state = start
  /\ cc = InitialConfiguration(string)

C8_UsableAfterInvalidInput ==
  result = "InputInvalid" => ENABLED (\E s \in Strings : CallValid(s))

(***************************************************************************)
(* C9.  Construction fails, with no machine and no run, exactly when       *)
(* in_alph is not a subset of tp_alph, or blank is not in tp_alph, or      *)
(* start is not in states, or end is not a subset of states.               *)
(***************************************************************************)
C9_Validation ==
  proc # "new" =>
     /\ proc = "exit_model" <=>
          \/ ~(in_alph \subseteq tp_alph)
          \/ blank \notin tp_alph
          \/ start \notin states
          \/ ~(end \subseteq states)
     /\ proc = "exit_model" =>
          /\ pc = "idle"
          /\ current_configuration = Unset
          /\ result = None
          /\ ~ENABLED (\E s \in Strings : CallValid(s) \/ CallInvalid(s))

C9_Witness ==
  /\ proc = "exit_model"
  /\ blank \notin tp_alph
  /\ in_alph \subseteq tp_alph
  /\ start \in states
  /\ end \subseteq states

(***************************************************************************)
(* C10.  A run that ends on the same input as the run before it ends with  *)
(* the same verdict, the same recorded configurations and the same final   *)
(* configuration, and the machine is the one that was constructed.         *)
(***************************************************************************)
C10_SameRunTwice ==
  (pc = "done" /\ last # Unset /\ last.string = string) =>
     /\ last.result = result
     /\ last.trace = trace
     /\ last.final = current_configuration

C10_Witness ==
  /\ pc = "done"
  /\ last # Unset
  /\ last.string = string
  /\ Len(trace) >= 2
  /\ cc.string_list # InitialConfiguration(string).string_list

(***************************************************************************)
(* C11.  A run with verbose set and a run without it on the same input     *)
(* pass through the same configurations and end with the same outcome:     *)
(* the same verdict, the same final configuration, and no exception in     *)
(* one of them only.                                                       *)
(***************************************************************************)
C11_TracingNeutral ==
  (pc = "done" /\ last # Unset /\ last.string = string /\ last.verbose # verbose) =>
     /\ proc = "alive"
     /\ last.result = result
     /\ last.trace = trace
     /\ last.final = current_configuration

(***************************************************************************)
(* C12.  The string enumerator does not fail, and the first string it      *)
(* produces is the empty string.                                           *)
(***************************************************************************)
C12_Enumerates ==
  (gen # Unset /\ gen.name = "_language") =>
     /\ proc = "alive"
     /\ gen.at # "start" => (Len(out) >= 1 /\ out[1] = <<>>)

(***************************************************************************)
(* C13.  accepted_language does not fail: a pull yields a string over      *)
(* in_alph (one on which run returns Accepted).                            *)
(***************************************************************************)
C13_AcceptedLanguage ==
  (gen # Unset /\ gen.name = "accepted_language" /\ want = Unset) =>
     /\ proc = "alive"
     /\ gen.at \notin {"start", "end"} => Len(out) >= 1
     /\ \A i \in 1..Len(out) : StringIsValid(out[i])

(***************************************************************************)
(* C14.  The -l loop for n strings never has more than n results, and it   *)
(* does not stop before it has n results.                                  *)
(***************************************************************************)
C14_FirstN ==
  (gen # Unset /\ want # Unset) =>
     /\ Len(out) <= want.n
     /\ (proc # "alive" \/ gen.at = "end") => Len(out) = want.n

(***************************************************************************)
(* C15.  With an empty in_alph the string stream, once pulled, has         *)
(* produced the empty string and nothing else, and it ends by exhaustion,  *)
(* not by a failure.                                                       *)
(***************************************************************************)
C15_EmptyAlphabet ==
  (in_alph = {} /\ gen # Unset /\ gen.name = "_language" /\ gen.at # "start") =>
     /\ out = << <<>> >>
     /\ proc = "alive"

(***************************************************************************)
(* C16.  No step of a run changes a field of the machine, and in every     *)
(* interleaving of two runs each run that has ended has the outcome its    *)
(* input has when it is run alone.                                         *)
(***************************************************************************)
C16_Interleaving ==
  \A t \in Threads :
     threads[t].pc = "done" => threads[t].result = Alone(threads[t].string)

C16_Witness ==
  /\ threads[1].pc = "done"
  /\ threads[1].mixed
  /\ threads[1].result = "Accepted"
  /\ threads[2].pc = "done"
  /\ threads[2].mixed
  /\ threads[2].result = "Rejected"
  /\ frames[1].string_list # InitialConfiguration(threads[1].string).string_list

(***************************************************************************)
(* C17.  In every configuration of a run on input w the tape has exactly   *)
(* len(w) + 2 cells.                                                       *)
(***************************************************************************)
C17_TapeLength ==
  (pc \in {"loop", "done"} /\ current_configuration # Unset) =>
     Len(current_configuration.string_list) = Len(string) + 2

(***************************************************************************)
(* C18.  When the loop body finds no table entry for the state and the     *)
(* symbol under the head, the run returns Rejected and the configuration   *)
(* (state, every cell, head) is the one before the attempted step.         *)
(***************************************************************************)
C18_NoEntryLeavesConfiguration ==
  [][(/\ pc = "loop"
      /\ current_configuration.state \notin end
      /\ current_configuration.state # reject
      /\ NoEntryUnderHead) =>
       /\ result' = "Rejected"
       /\ pc' = "done"
       /\ current_configuration' = current_configuration]_vars

C18_Witness ==
  /\ Ended
  /\ result = "Rejected"
  /\ cc.state \notin end
  /\ cc.state # reject
  /\ NoEntryUnderHead
  /\ Len(trace) >= 2
  /\ trace[Len(trace)] = cc
  /\ cc.string_list # InitialConfiguration(string).string_list

====
